---- MODULE Spec2Model ----
(***************************************************************************)
(* Model of LegalDocumentAnalyzer (src/fastmcp_server.py): the two loaded  *)
(* JSON trees and the analysis operations over them.                       *)
(*                                                                         *)
(* A Python dict is a function whose DOMAIN is the set of keys present, so *)
(* `k in d` is k \in DOMAIN d and d.get(k, default) is Get(d, k, default). *)
(* A Python list is a sequence.  A Python str is a TLA+ string; strings    *)
(* that are ordered by the code (sorted) are decoded by CodePoints.        *)
(* Python's None is None where a scalar is expected and NoneData where a   *)
(* document (dict) is expected.                                            *)
(***************************************************************************)
EXTENDS Integers, Sequences, FiniteSets, TLC

VARIABLES
    decree_data,     \* analyzer.decree_data
    amendment_data,  \* analyzer.amendment_data
    call,            \* the last operation and its arguments
    result,          \* what that operation returned
    alias,           \* which list/objects of decree_data the result shares
    remembered,      \* a get_article_content result a caller kept since the
                     \* last load, with its article number
    loading,         \* the load_legal_documents request in progress, if any
    bucket           \* the keys of the objects stored in the report bucket

vars == <<decree_data, amendment_data, call, result, alias, remembered,
          loading, bucket>>

-----------------------------------------------------------------------------
(* Python values *)

None == "None"
NoneData == [py_none |-> TRUE]
EmptyDict == <<>>
EmptyList == <<>>

Get(d, k, default) == IF k \in DOMAIN d THEN d[k] ELSE default

\* `not d` for a document slot: None and the empty dict are both falsy.
Falsy(d) == d = NoneData \/ DOMAIN d = {}

\* bool(x) for a str (None, when the key is absent, and "" are falsy)
TruthyStr(x) == x # "" /\ x # None

\* bool(x) for a list
TruthyList(x) == x # EmptyList

-----------------------------------------------------------------------------
(* Bounds and the universe of documents *)

MaxAmendments == 2

ArticleNumbers == {"7", "12", "12a", "2"}

\* The code points of the article-number strings, as str comparison sees them.
CodePoints(s) ==
    CASE s = "7"   -> <<55>>
      [] s = "12"  -> <<49, 50>>
      [] s = "12a" -> <<49, 50, 97>>
      [] s = "2"   -> <<50>>
      [] s = "1"   -> <<49>>

Clause(n, t) == [clause_number |-> n, text |-> t]

Article7 == [article_number |-> "7", article_title |-> "Scope",
             clauses |-> <<Clause("1", "c71"), Clause("2", "c72")>>]
Article12 == [article_number |-> "12", article_title |-> "Procedure",
              clauses |-> <<Clause("1", "c121")>>]
Article1 == [article_number |-> "1", article_title |-> "Definitions"]

Metadata(t) == [title |-> t, decree_number |-> "118"]

DecreeOneChapter ==
    [metadata |-> Metadata("Decree"),
     Decree |-> [chapters |-> <<
        [chapter_number |-> "I", chapter_title |-> "General",
         articles |-> <<Article7>>] >>]]

DecreeTwoChapters ==
    [metadata |-> Metadata("Decree"),
     Decree |-> [chapters |-> <<
        [chapter_number |-> "I", chapter_title |-> "General",
         articles |-> <<Article1, Article12>>],
        [chapter_number |-> "II", chapter_title |-> "Special",
         articles |-> <<Article7>>] >>]]

DecreeNoChapters == [metadata |-> Metadata("Decree")]

DecreeDocs == {DecreeOneChapter, DecreeTwoChapters, DecreeNoChapters, EmptyDict}

\* Amendments: the three defined kinds and an unclassified one, on an article
\* of the decree ("7"), on articles absent from it ("12a", "2"), with and
\* without insert_after_article, with and without article_number.
AmendmentUniverse ==
    { [amendment_type |-> "Modification", text |-> "m1",
       target |-> [article_number |-> "7", clause_number |-> "1"]],
      [amendment_type |-> "Modification", text |-> "m2",
       clauses |-> <<Clause("1", "new")>>,
       target |-> [article_number |-> "7", clause_number |-> "1"]],
      [amendment_type |-> "Addition", clauses |-> <<Clause("3", "c73")>>,
       target |-> [article_number |-> "7"]],
      [amendment_type |-> "Deletion",
       target |-> [article_number |-> "7", clause_number |-> "2"]],
      [amendment_type |-> "Repeal", text |-> "r1",
       target |-> [article_number |-> "7"]],
      [amendment_type |-> "Addition", text |-> "n1",
       clauses |-> <<Clause("1", "c12a")>>,
       target |-> [article_number |-> "12a", insert_after_article |-> "12"]],
      [amendment_type |-> "Addition", text |-> "n2",
       target |-> [article_number |-> "12a"]],
      [amendment_type |-> "Deletion", text |-> "d2",
       target |-> [article_number |-> "2", insert_after_article |-> "1"]],
      [amendment_type |-> "Addition", text |-> "n3",
       target |-> [insert_after_article |-> "12"]] }

AmendmentSeqs == UNION {[1..n -> AmendmentUniverse] : n \in 0..MaxAmendments}

AmendmentDocs ==
    {[metadata |-> Metadata("Amendment"), amendments |-> s] : s \in AmendmentSeqs}
    \cup {[metadata |-> Metadata("Amendment")], EmptyDict}

\* The documents a later load can name.
DecreeFiles == {DecreeOneChapter, EmptyDict}
AmendmentFiles ==
    {[metadata |-> Metadata("Amendment"), amendments |-> EmptyList], EmptyDict}

-----------------------------------------------------------------------------
(* get_changes_in_article *)

change_info(amendment) ==
    LET target == Get(amendment, "target", EmptyDict)
        base == [amendment_type |-> Get(amendment, "amendment_type", None),
                 target |-> target,
                 text |-> Get(amendment, "text", ""),
                 clauses |-> Get(amendment, "clauses", EmptyList)]
    IN  IF "insert_after_article" \in DOMAIN target
        THEN base @@ ("insert_after_article" :> target["insert_after_article"])
        ELSE base

\* A slip: changes.insert(0, change_info)
PrependChange(changes, amendment) == <<change_info(amendment)>> \o changes

\* changes.append(change_info)
AppendChange(changes, amendment) == Append(changes, change_info(amendment))

\* The loop of lines 126-141 over amendments[i..].
RECURSIVE MatchLoop(_, _, _, _)
MatchLoop(amendments, i, article_number, changes) ==
    IF i > Len(amendments) THEN changes
    ELSE LET amendment == amendments[i]
             target == Get(amendment, "target", EmptyDict)
         IN  IF Get(target, "article_number", None) = article_number
             THEN MatchLoop(amendments, i + 1, article_number,
                            AppendChange(changes, amendment))
             ELSE MatchLoop(amendments, i + 1, article_number, changes)

\* A slip: the answer of the previous call is kept and served again
get_changes_in_article_stale(ad, article_number) ==
    IF call.op = "get_changes_in_article" THEN result
    ELSE IF Falsy(ad) THEN [error |-> <<"Amendment data not loaded">>]
    ELSE LET changes == MatchLoop(Get(ad, "amendments", EmptyList), 1,
                                  article_number, EmptyList)
         IN  [article_number |-> article_number,
              changes |-> changes,
              total_changes |-> Len(changes)]

get_changes_in_article(ad, article_number) ==
    IF Falsy(ad) THEN [error |-> <<"Amendment data not loaded">>]
    ELSE LET changes == MatchLoop(Get(ad, "amendments", EmptyList), 1,
                                  article_number, EmptyList)
         IN  [article_number |-> article_number,
              changes |-> changes,
              total_changes |-> Len(changes)]

-----------------------------------------------------------------------------
(* get_article_content *)

\* A slip: the scan goes on after a match, so the last match wins
RECURSIVE FindArticleLast(_, _, _, _)
FindArticleLast(chapters, c, a, article_number) ==
    IF c > Len(chapters) THEN <<>>
    ELSE LET articles == Get(chapters[c], "articles", EmptyList)
         IN  IF a > Len(articles)
             THEN FindArticleLast(chapters, c + 1, 1, article_number)
             ELSE LET later ==
                          FindArticleLast(chapters, c, a + 1, article_number)
                  IN  IF later # <<>> THEN later
                      ELSE IF Get(articles[a], "article_number", None)
                                 = article_number
                           THEN <<c, a>>
                           ELSE <<>>

\* The position <<chapter, article>> of the first article whose number is
\* exactly article_number, scanning chapters then articles; <<>> if none.
RECURSIVE FindArticle(_, _, _, _)
FindArticle(chapters, c, a, article_number) ==
    IF c > Len(chapters) THEN <<>>
    ELSE LET articles == Get(chapters[c], "articles", EmptyList)
         IN  IF a > Len(articles)
             THEN FindArticle(chapters, c + 1, 1, article_number)
             ELSE IF Get(articles[a], "article_number", None) = article_number
                  THEN <<c, a>>
                  ELSE FindArticle(chapters, c, a + 1, article_number)

Chapters(dd) == Get(Get(dd, "Decree", EmptyDict), "chapters", EmptyList)

\* A slip: the previous lookup's result is served again, whatever the number
get_article_content_stale(dd, article_number) ==
    IF call.op = "get_article_content" THEN result
    ELSE IF Falsy(dd) THEN [error |-> <<"Decree data not loaded">>]
    ELSE LET pos == FindArticle(Chapters(dd), 1, 1, article_number)
         IN  IF pos = <<>>
             THEN [error |-> <<"Article ", article_number, " not found">>]
             ELSE LET chapter == Chapters(dd)[pos[1]]
                      article == chapter["articles"][pos[2]]
                  IN  [article_number |-> article_number,
                       title |-> Get(article, "article_title", None),
                       clauses |-> Get(article, "clauses", EmptyList),
                       chapter_number |-> Get(chapter, "chapter_number", None),
                       chapter_title |-> Get(chapter, "chapter_title", None)]

get_article_content(dd, article_number) ==
    IF Falsy(dd) THEN [error |-> <<"Decree data not loaded">>]
    ELSE LET pos == FindArticle(Chapters(dd), 1, 1, article_number)
         IN  IF pos = <<>>
             THEN [error |-> <<"Article ", article_number, " not found">>]
             ELSE LET chapter == Chapters(dd)[pos[1]]
                      article == chapter["articles"][pos[2]]
                  IN  [article_number |-> article_number,
                       title |-> Get(article, "article_title", None),
                       clauses |-> Get(article, "clauses", EmptyList),
                       chapter_number |-> Get(chapter, "chapter_number", None),
                       chapter_title |-> Get(chapter, "chapter_title", None)]

-----------------------------------------------------------------------------
(* summarize_all_changes *)

\* Python's str ordering: code point by code point, a proper prefix first.
RECURSIVE LexLess(_, _)
LexLess(a, b) ==
    IF b = <<>> THEN FALSE
    ELSE IF a = <<>> THEN TRUE
    ELSE IF Head(a) # Head(b) THEN Head(a) < Head(b)
    ELSE LexLess(Tail(a), Tail(b))

StrLess(s, t) == LexLess(CodePoints(s), CodePoints(t))

\* A slip: sorted(list(S), key=len), shortest first
RECURSIVE sorted_by_len(_)
sorted_by_len(S) ==
    IF S = {} THEN EmptyList
    ELSE LET least == CHOOSE x \in S : \A y \in S \ {x} :
                          \/ Len(CodePoints(x)) < Len(CodePoints(y))
                          \/ /\ Len(CodePoints(x)) = Len(CodePoints(y))
                             /\ StrLess(x, y)
         IN  <<least>> \o sorted_by_len(S \ {least})

\* sorted(list(S)) for a set of str
RECURSIVE sorted(_)
sorted(S) ==
    IF S = {} THEN EmptyList
    ELSE LET least == CHOOSE x \in S : \A y \in S \ {x} : StrLess(x, y)
         IN  <<least>> \o sorted(S \ {least})

\* amendment_counts[t] = amendment_counts.get(t, 0) + 1
CountType(amendment_counts, amendment) ==
    LET amendment_type == Get(amendment, "amendment_type", None)
    IN  (amendment_type :> Get(amendment_counts, amendment_type, 0) + 1)
        @@ amendment_counts

\* A slip: an article that is new is listed with the new articles only
AddAffectedNotNew(articles_affected, target) ==
    IF "article_number" \in DOMAIN target
       /\ "insert_after_article" \notin DOMAIN target
    THEN articles_affected \cup {target["article_number"]}
    ELSE articles_affected

\* lines 166-167
AddAffected(articles_affected, target) ==
    IF "article_number" \in DOMAIN target
    THEN articles_affected \cup {target["article_number"]}
    ELSE articles_affected

\* A slip: the insert-after reference is recorded instead of the new article
AddNewInsertAfter(new_articles, target) ==
    IF "article_number" \in DOMAIN target /\ "insert_after_article" \in DOMAIN target
    THEN new_articles \cup {target["insert_after_article"]}
    ELSE new_articles

\* lines 166, 170-171
AddNew(new_articles, target) ==
    IF "article_number" \in DOMAIN target /\ "insert_after_article" \in DOMAIN target
    THEN new_articles \cup {target["article_number"]}
    ELSE new_articles

\* The loop of lines 161-171; acc holds the three accumulators.
RECURSIVE SummaryLoop(_, _, _)
SummaryLoop(amendments, i, acc) ==
    IF i > Len(amendments) THEN acc
    ELSE LET amendment == amendments[i]
             target == Get(amendment, "target", EmptyDict)
         IN  SummaryLoop(amendments, i + 1,
                 [amendment_counts |-> CountType(acc.amendment_counts, amendment),
                  articles_affected |-> AddAffected(acc.articles_affected, target),
                  new_articles |-> AddNew(acc.new_articles, target)])

\* One entry of detailed_changes (lines 183-192)
detailed_change(a) ==
    LET target == Get(a, "target", EmptyDict)
    IN  [amendment_type |-> Get(a, "amendment_type", None),
         target_article |-> Get(target, "article_number", None),
         target_clause |-> Get(target, "clause_number", None),
         is_new_article |-> "insert_after_article" \in DOMAIN target,
         insert_after |-> Get(target, "insert_after_article", None),
         has_text |-> TruthyStr(Get(a, "text", None)),
         has_clauses |-> TruthyList(Get(a, "clauses", EmptyList)),
         clause_count |-> Len(Get(a, "clauses", EmptyList))]

summarize_all_changes(ad) ==
    IF Falsy(ad) THEN [error |-> <<"Amendment data not loaded">>]
    ELSE LET amendments == Get(ad, "amendments", EmptyList)
             acc == SummaryLoop(amendments, 1,
                        [amendment_counts |-> EmptyDict,
                         articles_affected |-> {},
                         new_articles |-> {}])
         IN  [summary |->
                 [total_amendments |-> Len(amendments),
                  amendment_types |-> acc.amendment_counts,
                  articles_affected |-> Cardinality(acc.articles_affected),
                  affected_articles |-> sorted(acc.articles_affected),
                  new_articles_added |-> Cardinality(acc.new_articles),
                  new_articles |-> sorted(acc.new_articles)],
              detailed_changes |->
                 [i \in 1..Len(amendments) |-> detailed_change(amendments[i])]]

-----------------------------------------------------------------------------
(* get_combined_article_view *)

\* [c for c in changes if c.get("amendment_type") == "Addition"]
new_article_changes(changes) ==
    SelectSeq(changes, LAMBDA c : Get(c, "amendment_type", None) = "Addition")

\* The view returned for an article the decree does not hold (lines 343-350)
NewArticleView(article_number, c) ==
    [article_number |-> article_number,
     is_new_article |-> TRUE,
     content |-> Get(c, "clauses", EmptyList),
     text |-> Get(c, "text", ""),
     insert_after |-> Get(c, "insert_after_article", None),
     source |-> "amendment_only"]

\* combined_content before the amendments are applied (lines 357-366);
\* list.copy() makes a new list of the same elements.
InitialCombined(article_number, original_content) ==
    [article_number |-> article_number,
     title |-> Get(original_content, "title", None),
     chapter_number |-> Get(original_content, "chapter_number", None),
     chapter_title |-> Get(original_content, "chapter_title", None),
     clauses |-> Get(original_content, "clauses", EmptyList),
     modifications |-> EmptyList,
     additions |-> EmptyList,
     deletions |-> EmptyList]

\* The entry a Modification or Deletion leaves in its bucket
KeyedEntry(change) ==
    [target_clause |-> Get(Get(change, "target", EmptyDict), "clause_number", None),
     clauses |-> Get(change, "clauses", EmptyList),
     text |-> Get(change, "text", "")]

\* The entry an Addition leaves in its bucket
AddedEntry(change) ==
    [clauses |-> Get(change, "clauses", EmptyList),
     text |-> Get(change, "text", "")]

\* A slip: a Deletion is applied to the clause list as well as recorded
ApplyChangeDeleting(combined_content, change) ==
    LET amendment_type == Get(change, "amendment_type", None)
    IN  IF amendment_type = "Addition"
        THEN [combined_content EXCEPT !.additions = Append(@, AddedEntry(change))]
        ELSE IF amendment_type = "Modification"
        THEN [combined_content EXCEPT !.modifications = Append(@, KeyedEntry(change))]
        ELSE IF amendment_type = "Deletion"
        THEN [combined_content EXCEPT
                 !.deletions = Append(@, KeyedEntry(change)),
                 !.clauses = SelectSeq(@, LAMBDA cl :
                     cl.clause_number # KeyedEntry(change).target_clause)]
        ELSE combined_content

\* A slip: a later Modification of a clause replaces the earlier one
ApplyChangeLastWins(combined_content, change) ==
    LET amendment_type == Get(change, "amendment_type", None)
    IN  IF amendment_type = "Addition"
        THEN [combined_content EXCEPT !.additions = Append(@, AddedEntry(change))]
        ELSE IF amendment_type = "Modification"
        THEN [combined_content EXCEPT !.modifications =
                 Append(SelectSeq(@, LAMBDA m :
                            m.target_clause # KeyedEntry(change).target_clause),
                        KeyedEntry(change))]
        ELSE IF amendment_type = "Deletion"
        THEN [combined_content EXCEPT !.deletions = Append(@, KeyedEntry(change))]
        ELSE combined_content

\* A slip: a Deletion is filed with the modifications
ApplyChangeMisfiled(combined_content, change) ==
    LET amendment_type == Get(change, "amendment_type", None)
    IN  IF amendment_type = "Addition"
        THEN [combined_content EXCEPT !.additions = Append(@, AddedEntry(change))]
        ELSE IF amendment_type \in {"Modification", "Deletion"}
        THEN [combined_content EXCEPT !.modifications = Append(@, KeyedEntry(change))]
        ELSE combined_content

\* The body of the loop of lines 369-390
ApplyChange(combined_content, change) ==
    LET amendment_type == Get(change, "amendment_type", None)
    IN  IF amendment_type = "Addition"
        THEN [combined_content EXCEPT !.additions = Append(@, AddedEntry(change))]
        ELSE IF amendment_type = "Modification"
        THEN [combined_content EXCEPT !.modifications = Append(@, KeyedEntry(change))]
        ELSE IF amendment_type = "Deletion"
        THEN [combined_content EXCEPT !.deletions = Append(@, KeyedEntry(change))]
        ELSE combined_content

RECURSIVE ApplyLoop(_, _, _)
ApplyLoop(changes, i, combined_content) ==
    IF i > Len(changes) THEN combined_content
    ELSE ApplyLoop(changes, i + 1, ApplyChange(combined_content, changes[i]))

\* A slip: the deletions bucket is left out of the flag
has_changes_no_deletions(combined_content) ==
    \/ Len(combined_content.modifications) > 0
    \/ Len(combined_content.additions) > 0

\* line 392
has_changes(combined_content) ==
    \/ Len(combined_content.modifications) > 0
    \/ Len(combined_content.additions) > 0
    \/ Len(combined_content.deletions) > 0

get_combined_article_view(dd, ad, article_number) ==
    IF Falsy(ad) THEN [error |-> <<"Amendment data not loaded">>]
    ELSE LET original_content == get_article_content(dd, article_number)
             changes == get_changes_in_article(ad, article_number)
         IN  IF "error" \in DOMAIN original_content
             THEN IF Get(changes, "total_changes", 0) > 0
                     /\ new_article_changes(Get(changes, "changes", EmptyList))
                            # EmptyList
                  THEN NewArticleView(article_number,
                           new_article_changes(Get(changes, "changes", EmptyList))[1])
                  ELSE original_content
             ELSE LET combined_content ==
                          ApplyLoop(Get(changes, "changes", EmptyList), 1,
                              InitialCombined(article_number, original_content))
                  IN  combined_content
                          @@ ("has_changes" :> has_changes(combined_content))

-----------------------------------------------------------------------------
(* State machine *)

NoAlias == [kind |-> "none"]

\* What of decree_data the value returned for article_number shares with the
\* tree: get_article_content returns the article's own clause list (line
\* 208); get_combined_article_view returns a copy of that list holding the
\* same clause objects (line 362).
Shares(dd, article_number, kind) ==
    LET pos == IF Falsy(dd) THEN <<>>
               ELSE FindArticle(Chapters(dd), 1, 1, article_number)
    IN  IF pos = <<>>
           \/ "clauses" \notin DOMAIN Chapters(dd)[pos[1]]["articles"][pos[2]]
        THEN NoAlias
        ELSE [kind |-> kind, chapter |-> pos[1], article |-> pos[2]]

\* After the module is imported: the analyzer is constructed and
\* load_default_documents has run; it loads the decree, then the amendments,
\* and either load may have failed.
Init ==
    /\ \/ decree_data = NoneData /\ amendment_data = NoneData
       \/ decree_data \in DecreeDocs /\ amendment_data = NoneData
       \/ decree_data \in DecreeDocs /\ amendment_data \in AmendmentDocs
    /\ call = [op |-> "__init__"]
    /\ result = NoneData
    /\ alias = NoAlias
    /\ remembered = NoneData
    /\ loading = NoneData
    /\ bucket = {}

\* load_decree_data on a local file: json.load either stores the parsed
\* document or raises before the assignment.
LoadDecreeData ==
    /\ \/ \E doc \in DecreeFiles : decree_data' = doc
       \/ UNCHANGED decree_data
    /\ call' = [op |-> "load_decree_data"]
    /\ result' = NoneData
    /\ alias' = NoAlias
    /\ remembered' = NoneData
    /\ UNCHANGED <<amendment_data, loading, bucket>>

LoadAmendmentData ==
    /\ \/ \E doc \in AmendmentFiles : amendment_data' = doc
       \/ UNCHANGED amendment_data
    /\ call' = [op |-> "load_amendment_data"]
    /\ result' = NoneData
    /\ alias' = NoAlias
    /\ remembered' = NoneData
    /\ UNCHANGED <<decree_data, loading, bucket>>

GetChangesInArticle(article_number) ==
    /\ call' = [op |-> "get_changes_in_article", article_number |-> article_number]
    /\ result' = get_changes_in_article(amendment_data, article_number)
    /\ alias' = NoAlias
    /\ UNCHANGED <<decree_data, amendment_data, remembered, loading, bucket>>

SummarizeAllChanges ==
    /\ call' = [op |-> "summarize_all_changes"]
    /\ result' = summarize_all_changes(amendment_data)
    /\ alias' = NoAlias
    /\ UNCHANGED <<decree_data, amendment_data, remembered, loading, bucket>>

GetArticleContent(article_number) ==
    /\ call' = [op |-> "get_article_content", article_number |-> article_number]
    /\ result' = get_article_content(decree_data, article_number)
    /\ alias' = Shares(decree_data, article_number, "list")
    /\ UNCHANGED <<decree_data, amendment_data, remembered, loading, bucket>>

\* A slip: the view is built on the article's own clause list, which the
\* handler then empties
GetCombinedArticleViewInPlace(article_number) ==
    /\ call' = [op |-> "get_combined_article_view",
                article_number |-> article_number]
    /\ result' = get_combined_article_view(decree_data, amendment_data,
                                           article_number)
    /\ alias' = IF Falsy(amendment_data) THEN NoAlias
                ELSE Shares(decree_data, article_number, "elements")
    /\ decree_data' =
          IF alias'.kind = "none" THEN decree_data
          ELSE [decree_data EXCEPT
                   !.Decree.chapters[alias'.chapter].articles[alias'.article]
                    .clauses = EmptyList]
    /\ UNCHANGED <<amendment_data, remembered, loading, bucket>>

GetCombinedArticleView(article_number) ==
    /\ call' = [op |-> "get_combined_article_view",
                article_number |-> article_number]
    /\ result' = get_combined_article_view(decree_data, amendment_data,
                                           article_number)
    /\ alias' = IF Falsy(amendment_data) THEN NoAlias
                ELSE Shares(decree_data, article_number, "elements")
    /\ UNCHANGED <<decree_data, amendment_data, remembered, loading, bucket>>

Next ==
    \/ LoadDecreeData
    \/ LoadAmendmentData
    \/ \E article_number \in ArticleNumbers :
          \/ GetChangesInArticle(article_number)
          \/ GetArticleContent(article_number)
          \/ GetCombinedArticleView(article_number)
    \/ SummarizeAllChanges

Spec == Init /\ [][Next]_vars

-----------------------------------------------------------------------------
(* A caller that mutates the value it was handed *)

\* The operation whose returned value the caller holds.
ViewOp == IF call.op = "caller_mutation" THEN call.view ELSE call.op

HoldsClauses == "clauses" \in DOMAIN result /\ "error" \notin DOMAIN result

\* result["clauses"][k]["text"] = "mutated": the clause object is changed in
\* place, so every list that holds it sees the change.
CallerMutatesClause(k) ==
    /\ HoldsClauses
    /\ k \in 1..Len(result.clauses)
    /\ result.clauses[k].text # "mutated"
    /\ result' = [result EXCEPT !.clauses[k].text = "mutated"]
    /\ decree_data' =
          IF alias.kind = "none" THEN decree_data
          ELSE [decree_data EXCEPT
                   !.Decree.chapters[alias.chapter].articles[alias.article]
                    .clauses[k].text = "mutated"]
    /\ call' = [op |-> "caller_mutation", view |-> ViewOp]
    /\ UNCHANGED <<amendment_data, alias, remembered, loading, bucket>>

\* result["clauses"].pop(): the list object is changed; the decree sees it
\* only if the result holds the decree's own list.
CallerPopsClause ==
    /\ HoldsClauses
    /\ Len(result.clauses) > 0
    /\ result' = [result EXCEPT !.clauses = SubSeq(@, 1, Len(@) - 1)]
    /\ decree_data' =
          IF alias.kind = "list"
          THEN [decree_data EXCEPT
                   !.Decree.chapters[alias.chapter].articles[alias.article]
                    .clauses = SubSeq(@, 1, Len(@) - 1)]
          ELSE decree_data
    /\ call' = [op |-> "caller_mutation", view |-> ViewOp]
    /\ UNCHANGED <<amendment_data, alias, remembered, loading, bucket>>

CallerNext ==
    \/ Next
    \/ \E k \in 1..2 : CallerMutatesClause(k)
    \/ CallerPopsClause

SpecCaller == Init /\ [][CallerNext]_vars

-----------------------------------------------------------------------------
(* get_amendment_details, search_amendments_by_type,
   get_detailed_amendment_analysis, compare_article_before_after *)

\* list[i] with Python's 0-based index; a negative index counts from the end.
PyIndex(list, i) == IF i >= 0 THEN list[i + 1] ELSE list[Len(list) + i + 1]

\* lines 237 and 283
out_of_range(amendment_index, amendments) ==
    amendment_index < 0 \/ amendment_index >= Len(amendments)

\* lines 238 and 284
OutOfRangeError(amendment_index, amendments) ==
    [error |-> <<"Amendment index ", amendment_index,
                 " out of range. Total amendments: ", Len(amendments)>>]

get_amendment_details(ad, amendment_index) ==
    IF Falsy(ad) THEN [error |-> <<"Amendment data not loaded">>]
    ELSE LET amendments == Get(ad, "amendments", EmptyList)
         IN  IF out_of_range(amendment_index, amendments)
             THEN OutOfRangeError(amendment_index, amendments)
             ELSE LET amendment == PyIndex(amendments, amendment_index)
                  IN  [index |-> amendment_index,
                       amendment_type |-> Get(amendment, "amendment_type", None),
                       target |-> Get(amendment, "target", EmptyDict),
                       text |-> Get(amendment, "text", ""),
                       clauses |-> Get(amendment, "clauses", EmptyList),
                       clause_count |-> Len(Get(amendment, "clauses", EmptyList)),
                       has_text |-> TruthyStr(Get(amendment, "text", None)),
                       has_clauses |->
                           TruthyList(Get(amendment, "clauses", EmptyList))]

\* The code points of the amendment-type strings.
TypeChars(s) ==
    CASE s = "Addition" -> <<65, 100, 100, 105, 116, 105, 111, 110>>
      [] s = "addition" -> <<97, 100, 100, 105, 116, 105, 111, 110>>
      [] s = "ADDITION" -> <<65, 68, 68, 73, 84, 73, 79, 78>>
      [] s = "Modification" ->
             <<77, 111, 100, 105, 102, 105, 99, 97, 116, 105, 111, 110>>
      [] s = "Deletion" -> <<68, 101, 108, 101, 116, 105, 111, 110>>
      [] s = "" -> <<>>

\* str.lower(), as the code points of the result
lower(s) ==
    [k \in 1..Len(TypeChars(s)) |->
        IF TypeChars(s)[k] \in 65..90 THEN TypeChars(s)[k] + 32
        ELSE TypeChars(s)[k]]

\* A slip: only the stored type is lowered
TypeMatchesQueryAsGiven(amendment, amendment_type) ==
    lower(Get(amendment, "amendment_type", "")) = TypeChars(amendment_type)

\* line 261
TypeMatches(amendment, amendment_type) ==
    lower(Get(amendment, "amendment_type", "")) = lower(amendment_type)

\* A slip: enumerate(amendments, 1)
MatchEntryFromOne(i, amendment) ==
    [index |-> i + 1,
     amendment_type |-> Get(amendment, "amendment_type", None),
     target_section |->
         Get(Get(amendment, "target", EmptyDict), "article_number", None),
     target_clause |->
         Get(Get(amendment, "target", EmptyDict), "clause_number", None),
     has_text |-> TruthyStr(Get(amendment, "text", None)),
     has_clauses |-> TruthyList(Get(amendment, "clauses", EmptyList))]

\* The entry of lines 262-269 for the amendment at 0-based position i
MatchEntry(i, amendment) ==
    [index |-> i,
     amendment_type |-> Get(amendment, "amendment_type", None),
     target_section |->
         Get(Get(amendment, "target", EmptyDict), "article_number", None),
     target_clause |->
         Get(Get(amendment, "target", EmptyDict), "clause_number", None),
     has_text |-> TruthyStr(Get(amendment, "text", None)),
     has_clauses |-> TruthyList(Get(amendment, "clauses", EmptyList))]

\* The loop of lines 260-269; i is the 0-based index enumerate yields.
RECURSIVE SearchLoop(_, _, _, _)
SearchLoop(amendments, i, amendment_type, matching_amendments) ==
    IF i >= Len(amendments) THEN matching_amendments
    ELSE LET amendment == PyIndex(amendments, i)
         IN  SearchLoop(amendments, i + 1, amendment_type,
                 IF TypeMatches(amendment, amendment_type)
                 THEN Append(matching_amendments, MatchEntry(i, amendment))
                 ELSE matching_amendments)

search_amendments_by_type(ad, amendment_type) ==
    IF Falsy(ad) THEN [error |-> <<"Amendment data not loaded">>]
    ELSE LET matching_amendments ==
                 SearchLoop(Get(ad, "amendments", EmptyList), 0,
                            amendment_type, EmptyList)
         IN  [amendment_type |-> amendment_type,
              matches |-> matching_amendments,
              total_matches |-> Len(matching_amendments)]

\* A slip: the original content is fetched whenever an article is named
IncludesOriginalAnyType(amendment_type, article_number) ==
    TruthyStr(article_number)

\* line 301
IncludesOriginal(amendment_type, article_number) ==
    amendment_type \in {"Modification", "Deletion"} /\ TruthyStr(article_number)

Content(amendment) ==
    [text |-> Get(amendment, "text", ""),
     clauses |-> Get(amendment, "clauses", EmptyList)]

\* A slip: the type is recognised whatever its letter case
TypePayloadAnyCase(amendment_type, amendment, article_number) ==
    IF amendment_type \in {"Addition", "addition", "ADDITION"}
    THEN [added_content |-> Content(amendment),
          summary |-> <<"New content added to Article ", article_number>>]
    ELSE IF amendment_type = "Modification"
    THEN [modified_content |-> Content(amendment),
          summary |-> <<"Article ", article_number, " content modified">>]
    ELSE IF amendment_type = "Deletion"
    THEN [deleted_content |-> Content(amendment),
          summary |-> <<"Content deleted from Article ", article_number>>]
    ELSE EmptyDict

\* The keys lines 306-325 add to the analysis
TypePayload(amendment_type, amendment, article_number) ==
    IF amendment_type = "Addition"
    THEN [added_content |-> Content(amendment),
          summary |-> <<"New content added to Article ", article_number>>]
    ELSE IF amendment_type = "Modification"
    THEN [modified_content |-> Content(amendment),
          summary |-> <<"Article ", article_number, " content modified">>]
    ELSE IF amendment_type = "Deletion"
    THEN [deleted_content |-> Content(amendment),
          summary |-> <<"Content deleted from Article ", article_number>>]
    ELSE EmptyDict

get_detailed_amendment_analysis(dd, ad, amendment_index) ==
    IF Falsy(ad) THEN [error |-> <<"Amendment data not loaded">>]
    ELSE LET amendments == Get(ad, "amendments", EmptyList)
         IN  IF out_of_range(amendment_index, amendments)
             THEN OutOfRangeError(amendment_index, amendments)
             ELSE LET amendment == PyIndex(amendments, amendment_index)
                      amendment_type == Get(amendment, "amendment_type", None)
                      target == Get(amendment, "target", EmptyDict)
                      article_number == Get(target, "article_number", None)
                      analysis ==
                          [amendment_index |-> amendment_index,
                           amendment_type |-> amendment_type,
                           target_article |-> article_number,
                           target_clause |-> Get(target, "clause_number", None),
                           is_new_article |->
                               "insert_after_article" \in DOMAIN target,
                           insert_after |->
                               Get(target, "insert_after_article", None)]
                      original ==
                          IF IncludesOriginal(amendment_type, article_number)
                          THEN [original_content |->
                                   get_article_content(dd, article_number)]
                          ELSE EmptyDict
                  IN  TypePayload(amendment_type, amendment, article_number)
                          @@ original @@ analysis

\* [c["amendment_type"] for c in changes.get("changes", [])]
change_types(changes) ==
    [j \in 1..Len(changes) |-> changes[j]["amendment_type"]]

compare_article_before_after(dd, ad, article_number) ==
    LET original_content == get_article_content(dd, article_number)
        changes == get_changes_in_article(ad, article_number)
    IN  [article_number |-> article_number,
         original_content |-> original_content,
         changes |-> changes,
         analysis |->
            [has_changes |-> Get(changes, "total_changes", 0) > 0,
             change_types |-> change_types(Get(changes, "changes", EmptyList)),
             is_new_article |->
                \E j \in 1..Len(Get(changes, "changes", EmptyList)) :
                   "insert_after_article" \in DOMAIN
                       Get(Get(changes, "changes", EmptyList)[j], "target",
                           EmptyDict)]]

-----------------------------------------------------------------------------
(* Every analysis operation, over amendments of every type spelling *)

Indices == -1..MaxAmendments

SearchTypes == {"Addition", "addition", "ADDITION", "Modification", "Deletion"}

\* Amendments of the three kinds, of a differently-cased kind, without an
\* article number and without any key but text.
TypedAmendments ==
    { [amendment_type |-> "Modification", text |-> "m1",
       target |-> [article_number |-> "7", clause_number |-> "1"]],
      [amendment_type |-> "Addition", clauses |-> <<Clause("3", "c73")>>,
       target |-> [article_number |-> "7"]],
      [amendment_type |-> "Deletion",
       target |-> [article_number |-> "7", clause_number |-> "2"]],
      [amendment_type |-> "addition", text |-> "n1",
       target |-> [article_number |-> "12a", insert_after_article |-> "12"]],
      [amendment_type |-> "Modification", text |-> "m3",
       target |-> [clause_number |-> "1"]],
      [text |-> "x"] }

TypedAmendmentDocs ==
    {[metadata |-> Metadata("Amendment"), amendments |-> s] :
        s \in UNION {[1..n -> TypedAmendments] : n \in 0..MaxAmendments}}
    \cup {[metadata |-> Metadata("Amendment")], EmptyDict}

\* A decree that breaks the uniqueness of article numbers: "7" twice.
DecreeRepeatedArticle ==
    [metadata |-> Metadata("Decree"),
     Decree |-> [chapters |-> <<
        [chapter_number |-> "I", chapter_title |-> "General",
         articles |-> <<Article12, Article7>>],
        [chapter_number |-> "II", chapter_title |-> "Special",
         articles |-> <<[article_number |-> "7", article_title |-> "Later",
                         clauses |-> <<Clause("1", "other")>>]>>] >>]]

\* As Init, and either tree may be the one that is missing.
InitAll ==
    /\ decree_data \in DecreeDocs \cup {DecreeRepeatedArticle, NoneData}
    /\ amendment_data \in TypedAmendmentDocs \cup {NoneData}
    /\ call = [op |-> "__init__"]
    /\ result = NoneData
    /\ alias = NoAlias
    /\ remembered = NoneData
    /\ loading = NoneData
    /\ bucket = {}

CompareArticleBeforeAfter(article_number) ==
    /\ call' = [op |-> "compare_article_before_after",
                article_number |-> article_number]
    /\ result' = compare_article_before_after(decree_data, amendment_data,
                                              article_number)
    /\ alias' = Shares(decree_data, article_number, "nested")
    /\ UNCHANGED <<decree_data, amendment_data, remembered, loading, bucket>>

GetAmendmentDetails(amendment_index) ==
    /\ call' = [op |-> "get_amendment_details",
                amendment_index |-> amendment_index]
    /\ result' = get_amendment_details(amendment_data, amendment_index)
    /\ alias' = NoAlias
    /\ UNCHANGED <<decree_data, amendment_data, remembered, loading, bucket>>

SearchAmendmentsByType(amendment_type) ==
    /\ call' = [op |-> "search_amendments_by_type",
                amendment_type |-> amendment_type]
    /\ result' = search_amendments_by_type(amendment_data, amendment_type)
    /\ alias' = NoAlias
    /\ UNCHANGED <<decree_data, amendment_data, remembered, loading, bucket>>

GetDetailedAmendmentAnalysis(amendment_index) ==
    /\ call' = [op |-> "get_detailed_amendment_analysis",
                amendment_index |-> amendment_index]
    /\ result' = get_detailed_amendment_analysis(decree_data, amendment_data,
                                                 amendment_index)
    /\ alias' =
          IF "original_content" \in DOMAIN result'
          THEN Shares(decree_data, result'.target_article, "nested")
          ELSE NoAlias
    /\ UNCHANGED <<decree_data, amendment_data, remembered, loading, bucket>>

NextAll ==
    \/ Next
    \/ \E article_number \in ArticleNumbers :
          CompareArticleBeforeAfter(article_number)
    \/ \E amendment_index \in Indices :
          \/ GetAmendmentDetails(amendment_index)
          \/ GetDetailedAmendmentAnalysis(amendment_index)
    \/ \E amendment_type \in SearchTypes : SearchAmendmentsByType(amendment_type)

SpecAll == InitAll /\ [][NextAll]_vars

-----------------------------------------------------------------------------
(* A caller that keeps a lookup result and repeats the lookup later *)

RepeatAmendmentDocs ==
    AmendmentFiles
    \cup {[metadata |-> Metadata("Amendment"),
           amendments |-> <<[amendment_type |-> "Deletion",
                             target |-> [article_number |-> "7",
                                         clause_number |-> "2"]]>>]}

InitRepeat ==
    /\ decree_data \in DecreeDocs \cup {DecreeRepeatedArticle, NoneData}
    /\ amendment_data \in RepeatAmendmentDocs \cup {NoneData}
    /\ call = [op |-> "__init__"]
    /\ result = NoneData
    /\ alias = NoAlias
    /\ remembered = NoneData
    /\ loading = NoneData
    /\ bucket = {}

\* The caller keeps the value get_article_content has just returned.
Remember ==
    /\ call.op = "get_article_content"
    /\ remembered' = [article_number |-> call.article_number,
                      result |-> result]
    /\ call' = [op |-> "caller_keeps_result"]
    /\ UNCHANGED <<decree_data, amendment_data, result, alias, loading, bucket>>

NextRepeat ==
    \/ NextAll
    \/ Remember

SpecRepeat == InitRepeat /\ [][NextRepeat]_vars

-----------------------------------------------------------------------------
(* The tools load_legal_documents, check_document_status and
   generate_analysis_report *)

\* A file a load is given: one that parses to data, or one whose open or
\* parse raises.
Unreadable == [readable |-> FALSE]
Readable(data) == [readable |-> TRUE, data |-> data]

DecreeFileArgs == {Readable(doc) : doc \in DecreeFiles} \cup {Unreadable}
AmendmentFileArgs == {Readable(doc) : doc \in AmendmentFiles} \cup {Unreadable}

\* The whole handler of lines 412-421, run without interruption: the decree
\* is stored before the amendment file is opened, and an exception of either
\* load ends the handler in the except branch.
LoadLegalDocuments(decree_file, amendment_file) ==
    /\ loading = NoneData
    /\ call' = [op |-> "load_legal_documents",
                decree_file |-> decree_file,
                amendment_file |-> amendment_file]
    /\ decree_data' =
          IF decree_file.readable THEN decree_file.data ELSE decree_data
    /\ amendment_data' =
          IF decree_file.readable /\ amendment_file.readable
          THEN amendment_file.data
          ELSE amendment_data
    /\ result' =
          IF decree_file.readable /\ amendment_file.readable
          THEN [returned |-> "Successfully loaded"]
          ELSE [returned |-> "Error loading documents"]
    /\ alias' = NoAlias
    /\ remembered' = NoneData
    /\ UNCHANGED <<loading, bucket>>

\* lines 673-685: the info blocks are added for truthy trees only.
DocumentInfo(dd, ad) ==
    (IF Falsy(dd) THEN EmptyDict
     ELSE [decree_info |->
              [title |-> Get(Get(dd, "metadata", EmptyDict), "title", "N/A"),
               decree_number |->
                  Get(Get(dd, "metadata", EmptyDict), "decree_number", "N/A")]])
    @@
    (IF Falsy(ad) THEN EmptyDict
     ELSE [amendment_info |->
              [title |-> Get(Get(ad, "metadata", EmptyDict), "title", "N/A"),
               decree_number |->
                  Get(Get(ad, "metadata", EmptyDict), "decree_number", "N/A"),
               total_amendments |-> Len(Get(ad, "amendments", EmptyList))]])

\* lines 662-671; S3_AVAILABLE is fixed when the module is imported.
check_document_status(dd, ad, s3_available) ==
    [s3_available |-> s3_available,
     documents_loaded |-> [decree_loaded |-> dd # NoneData,
                           amendment_loaded |-> ad # NoneData]]
    @@ DocumentInfo(dd, ad)

CheckDocumentStatus ==
    /\ \E s3_available \in BOOLEAN :
          result' = check_document_status(decree_data, amendment_data,
                                          s3_available)
    /\ call' = [op |-> "check_document_status"]
    /\ alias' = NoAlias
    /\ UNCHANGED <<decree_data, amendment_data, remembered, loading, bucket>>

ReportTypes == {"comprehensive", "executive"}

\* The names generate_pdf_report can make from the clock and uuid4.
ReportFilenames ==
    {"legal_amendment_report_1.pdf", "legal_amendment_report_2.pdf"}

\* legal_report_generator.py line 433
s3_key(filename) == "reports/" \o filename

\* legal_report_generator.py lines 439-443: the link is signed locally for
\* the key it is given.
presigned_url(filename) ==
    [ClientMethod |-> "get_object", Key |-> filename, ExpiresIn |-> 604800]

\* list[:n]
Take(list, n) == SubSeq(list, 1, IF Len(list) < n THEN Len(list) ELSE n)

\* lines 727-749
short_summary(dd, ad, report_type, pdf_url) ==
    LET summary_data == Get(summarize_all_changes(ad), "summary", EmptyDict)
        decree == IF Falsy(dd) THEN EmptyDict ELSE Get(dd, "metadata", EmptyDict)
        amendment == IF Falsy(ad) THEN EmptyDict
                     ELSE Get(ad, "metadata", EmptyDict)
    IN  [analysis_summary |->
            [total_amendments |-> Get(summary_data, "total_amendments", 0),
             articles_affected |-> Get(summary_data, "articles_affected", 0),
             new_articles_added |-> Get(summary_data, "new_articles_added", 0),
             amendment_types |-> Get(summary_data, "amendment_types", EmptyDict),
             most_affected_articles |->
                Take(Get(summary_data, "affected_articles", EmptyList), 5),
             new_articles |-> Get(summary_data, "new_articles", EmptyList)],
         document_info |->
            [decree_title |-> Get(decree, "title", "N/A"),
             amendment_title |-> Get(amendment, "title", "N/A"),
             decree_number |-> Get(decree, "decree_number", "N/A"),
             amendment_number |-> Get(amendment, "decree_number", "N/A")],
         report_details |->
            [report_type |-> report_type,
             pdf_url |-> pdf_url,
             expires_in |-> "7 days",
             status |-> "success"]]

\* lines 691-759 with generate_pdf_report and _upload_to_s3: the report is
\* stored under s3_key(filename) and the link is made for filename; a
\* failure of the build, of the upload or of the signing is answered with
\* status error.
\* The clock value generated_at is left out of the result.
GenerateAnalysisReport(report_type, filename) ==
    /\ call' = [op |-> "generate_analysis_report", report_type |-> report_type,
                filename |-> filename]
    /\ \/ /\ Falsy(amendment_data)
          /\ result' = [status |-> "error",
                        message |-> "Amendment data not loaded"]
          /\ UNCHANGED bucket
       \/ /\ ~Falsy(amendment_data)
          /\ result' = [status |-> "error",
                        message |-> "PDF report generation not available",
                        analysis_summary |->
                           summarize_all_changes(amendment_data)]
          /\ UNCHANGED bucket
       \/ /\ ~Falsy(amendment_data)
          /\ result' = [status |-> "error",
                        message |-> "Failed to generate analysis report"]
          /\ \/ UNCHANGED bucket
             \/ bucket' = bucket \cup {s3_key(filename)}
       \/ /\ ~Falsy(amendment_data)
          /\ bucket' = bucket \cup {s3_key(filename)}
          /\ result' = short_summary(decree_data, amendment_data, report_type,
                                     presigned_url(filename))
    /\ alias' = NoAlias
    /\ UNCHANGED <<decree_data, amendment_data, remembered, loading>>

\* The default documents of the import-time load.
DefaultAmendments ==
    [metadata |-> Metadata("Amendment"),
     amendments |-> <<
        [amendment_type |-> "Modification", text |-> "m1",
         target |-> [article_number |-> "7", clause_number |-> "1"]],
        [amendment_type |-> "Addition", text |-> "n1",
         target |-> [article_number |-> "12a",
                     insert_after_article |-> "12"]] >>]

InitTools ==
    /\ \/ decree_data = NoneData /\ amendment_data = NoneData
       \/ decree_data = DecreeTwoChapters /\ amendment_data = NoneData
       \/ decree_data = DecreeTwoChapters /\ amendment_data = DefaultAmendments
    /\ call = [op |-> "__init__"]
    /\ result = NoneData
    /\ alias = NoAlias
    /\ remembered = NoneData
    /\ loading = NoneData
    /\ bucket = {}

NextTools ==
    \/ NextAll
    \/ \E decree_file \in DecreeFileArgs, amendment_file \in AmendmentFileArgs :
          LoadLegalDocuments(decree_file, amendment_file)
    \/ CheckDocumentStatus
    \/ \E report_type \in ReportTypes, filename \in ReportFilenames :
          GenerateAnalysisReport(report_type, filename)

SpecTools == InitTools /\ [][NextTools]_vars

-----------------------------------------------------------------------------
(* load_legal_documents while other requests are served *)

\* The handler of lines 412-421 takes no lock, so another request can run
\* between its statements.  A request begins ...
BeginLoadLegalDocuments(decree_file, amendment_file) ==
    /\ loading = NoneData
    /\ loading' = [pc |-> "load_decree_data",
                   decree_file |-> decree_file,
                   amendment_file |-> amendment_file,
                   stored |-> <<decree_data, amendment_data>>]
    /\ UNCHANGED <<decree_data, amendment_data, call, result, alias,
                   remembered, bucket>>

\* ... line 416 stores the decree or raises ...
LoadLegalDocumentsDecree ==
    /\ loading # NoneData
    /\ loading.pc = "load_decree_data"
    /\ \/ /\ loading.decree_file.readable
          /\ decree_data' = loading.decree_file.data
          /\ loading' = [loading EXCEPT !.pc = "load_amendment_data"]
          /\ remembered' = NoneData
          /\ UNCHANGED <<call, result, alias>>
       \/ /\ ~loading.decree_file.readable
          /\ call' = [op |-> "load_legal_documents",
                      decree_file |-> loading.decree_file,
                      amendment_file |-> loading.amendment_file]
          /\ result' = [returned |-> "Error loading documents"]
          /\ alias' = NoAlias
          /\ loading' = NoneData
          /\ UNCHANGED <<decree_data, remembered>>
    /\ UNCHANGED <<amendment_data, bucket>>

\* ... and line 417 stores the amendments or raises; the handler returns.
LoadLegalDocumentsAmendment ==
    /\ loading # NoneData
    /\ loading.pc = "load_amendment_data"
    /\ call' = [op |-> "load_legal_documents",
                decree_file |-> loading.decree_file,
                amendment_file |-> loading.amendment_file]
    /\ \/ /\ loading.amendment_file.readable
          /\ amendment_data' = loading.amendment_file.data
          /\ result' = [returned |-> "Successfully loaded"]
       \/ /\ ~loading.amendment_file.readable
          /\ result' = [returned |-> "Error loading documents"]
          /\ UNCHANGED amendment_data
    /\ alias' = NoAlias
    /\ remembered' = NoneData
    /\ loading' = NoneData
    /\ UNCHANGED <<decree_data, bucket>>

\* Any one analysis request
Analyse ==
    \/ \E article_number \in ArticleNumbers :
          \/ GetChangesInArticle(article_number)
          \/ GetArticleContent(article_number)
          \/ GetCombinedArticleView(article_number)
          \/ CompareArticleBeforeAfter(article_number)
    \/ SummarizeAllChanges
    \/ \E amendment_index \in Indices :
          \/ GetAmendmentDetails(amendment_index)
          \/ GetDetailedAmendmentAnalysis(amendment_index)
    \/ \E amendment_type \in SearchTypes : SearchAmendmentsByType(amendment_type)

NextConcurrent ==
    \/ Analyse
    \/ \E decree_file \in DecreeFileArgs, amendment_file \in AmendmentFileArgs :
          BeginLoadLegalDocuments(decree_file, amendment_file)
    \/ LoadLegalDocumentsDecree
    \/ LoadLegalDocumentsAmendment

SpecConcurrent == InitTools /\ [][NextConcurrent]_vars

-----------------------------------------------------------------------------
(* Properties *)

\* The loaded amendment sequence and what the claims say about it, read off
\* the trees directly.
Amendments == Get(amendment_data, "amendments", EmptyList)

TargetOf(i) == Get(Amendments[i], "target", EmptyDict)

TypeOf(i) == Get(Amendments[i], "amendment_type", None)

Targets(i, A) ==
    "article_number" \in DOMAIN TargetOf(i) /\ TargetOf(i)["article_number"] = A

\* Positions of the amendments that satisfy P, in sequence order
Positions(P(_)) ==
    SelectSeq([i \in 1..Len(Amendments) |-> i], P)

ArticleInDecree(A) ==
    /\ ~Falsy(decree_data)
    /\ \E c \in 1..Len(Chapters(decree_data)) :
          LET articles == Get(Chapters(decree_data)[c], "articles", EmptyList)
          IN  \E a \in 1..Len(articles) :
                 "article_number" \in DOMAIN articles[a]
                 /\ articles[a]["article_number"] = A

Returned(op) == call.op = op

\* A combined view of an article the decree holds has just been returned.
CombinedOfExisting ==
    /\ Returned("get_combined_article_view")
    /\ ~Falsy(amendment_data)
    /\ ArticleInDecree(call.article_number)

\* A combined view was asked for an article the loaded decree does not hold.
CombinedOfAbsent ==
    /\ Returned("get_combined_article_view")
    /\ ~Falsy(amendment_data)
    /\ ~Falsy(decree_data)
    /\ ~ArticleInDecree(call.article_number)

IsNewArticleAddition(i, A) ==
    /\ Targets(i, A)
    /\ TypeOf(i) = "Addition"
    /\ "insert_after_article" \in DOMAIN TargetOf(i)

\* C1: for an article absent from the loaded decree, when no Addition that
\* targets it carries insert_after_article, the combined view is exactly the
\* not-found result of get_article_content.
C1_NotFoundWithoutInsertAfter ==
    (CombinedOfAbsent
     /\ ~\E i \in 1..Len(Amendments) : IsNewArticleAddition(i, call.article_number))
    => /\ result = get_article_content(decree_data, call.article_number)
       /\ result = [error |-> <<"Article ", call.article_number, " not found">>]

\* C2: for an article absent from the loaded decree, when some Addition that
\* targets it carries insert_after_article, the combined view is the
\* new-article view built from such an amendment: its insert_after, clauses
\* and text.
C2_NewArticleFromInsertAfter ==
    (CombinedOfAbsent
     /\ \E i \in 1..Len(Amendments) : IsNewArticleAddition(i, call.article_number))
    => \E i \in 1..Len(Amendments) :
          /\ IsNewArticleAddition(i, call.article_number)
          /\ result = [article_number |-> call.article_number,
                       is_new_article |-> TRUE,
                       content |-> Get(Amendments[i], "clauses", EmptyList),
                       text |-> Get(Amendments[i], "text", ""),
                       insert_after |-> TargetOf(i)["insert_after_article"],
                       source |-> "amendment_only"]

BucketTotal ==
    Len(result.additions) + Len(result.modifications) + Len(result.deletions)

\* C3 as stated: in the combined view of an existing article the three
\* buckets together hold as many entries as get_changes_in_article matches.
C3_BucketsCoverEveryMatch ==
    CombinedOfExisting
    => BucketTotal =
          get_changes_in_article(amendment_data, call.article_number).total_changes

\* C3 amended: each bucket holds exactly the matched amendments of its own
\* type, so the buckets together hold the matched amendments whose type is
\* Addition, Modification or Deletion; a match of any other type is in none.
C3_BucketsCoverTypedMatches ==
    CombinedOfExisting
    => LET A == call.article_number
           Of(t) == Positions(LAMBDA i : Targets(i, A) /\ TypeOf(i) = t)
       IN  /\ Len(result.additions) = Len(Of("Addition"))
           /\ Len(result.modifications) = Len(Of("Modification"))
           /\ Len(result.deletions) = Len(Of("Deletion"))
           /\ BucketTotal =
                 Len(Positions(LAMBDA i : Targets(i, A) /\ TypeOf(i) \in
                         {"Addition", "Modification", "Deletion"}))

\* An existing article with a Deletion and an unclassified amendment: the
\* buckets hold one entry, the matcher reports two.
C3_Witness ==
    /\ CombinedOfExisting
    /\ Len(result.deletions) = 1
    /\ BucketTotal = 1
    /\ get_changes_in_article(amendment_data, call.article_number).total_changes = 2

\* C4: in the combined view of an existing article has_changes is true
\* exactly when one of the three buckets is non-empty.
C4_HasChangesIffBucket ==
    CombinedOfExisting
    => (result.has_changes <=>
           \/ result.additions # EmptyList
           \/ result.modifications # EmptyList
           \/ result.deletions # EmptyList)

\* A combined view whose only non-empty bucket is deletions.
C4_Witness ==
    /\ CombinedOfExisting
    /\ result.has_changes
    /\ result.additions = EmptyList
    /\ result.modifications = EmptyList
    /\ result.deletions # EmptyList

\* C5: the modifications bucket holds one entry for each Modification that
\* targets the article, in amendment order, also when they name the same
\* clause.
C5_ModificationsAllKept ==
    CombinedOfExisting
    => LET A == call.article_number
           mods == Positions(LAMBDA i : Targets(i, A) /\ TypeOf(i) = "Modification")
       IN  /\ Len(result.modifications) = Len(mods)
           /\ \A j \in 1..Len(mods) :
                 /\ result.modifications[j].target_clause
                       = Get(TargetOf(mods[j]), "clause_number", None)
                 /\ result.modifications[j].text
                       = Get(Amendments[mods[j]], "text", "")
                 /\ result.modifications[j].clauses
                       = Get(Amendments[mods[j]], "clauses", EmptyList)

\* Two different Modifications of the same clause, both in the bucket.
C5_Witness ==
    /\ CombinedOfExisting
    /\ Len(result.modifications) = 2
    /\ result.modifications[1].target_clause = result.modifications[2].target_clause
    /\ result.modifications[1].text # result.modifications[2].text

\* C6: the clauses of the combined view of an existing article are the
\* clauses get_article_content returns for it, whatever amendments target it.
C6_ClausesUntouched ==
    CombinedOfExisting
    => result.clauses
          = get_article_content(decree_data, call.article_number).clauses

\* A combined view with a Deletion aimed at a clause the article has.
C6_Witness ==
    /\ CombinedOfExisting
    /\ \E j \in 1..Len(result.deletions) : \E k \in 1..Len(result.clauses) :
          result.deletions[j].target_clause = result.clauses[k].clause_number

\* C7: nothing a caller does to a combined view it was handed changes the
\* loaded decree.
C7_CallerCannotChangeDecree ==
    [][(call'.op = "caller_mutation" /\ call'.view = "get_combined_article_view")
          => decree_data' = decree_data]_vars

\* C8: get_changes_in_article returns the amendments that target the
\* article, each once, in amendment order, and total_changes counts them.
C8_MatchesInOrder ==
    (Returned("get_changes_in_article") /\ ~Falsy(amendment_data))
    => LET hits == Positions(LAMBDA i : Targets(i, call.article_number))
       IN  /\ result.article_number = call.article_number
           /\ result.total_changes = Len(result.changes)
           /\ Len(result.changes) = Len(hits)
           /\ \A j \in 1..Len(hits) :
                 LET amendment == Amendments[hits[j]]
                     change == result.changes[j]
                 IN  /\ change.amendment_type = Get(amendment, "amendment_type", None)
                     /\ change.target = Get(amendment, "target", EmptyDict)
                     /\ change.text = Get(amendment, "text", "")
                     /\ change.clauses = Get(amendment, "clauses", EmptyList)

\* Two different amendments matched for one article.
C8_Witness ==
    /\ Returned("get_changes_in_article")
    /\ ~Falsy(amendment_data)
    /\ result.total_changes = 2
    /\ result.changes[1] # result.changes[2]

StrictlyAscending(list) ==
    \A j \in 1..Len(list) - 1 : StrLess(list[j], list[j + 1])

Elements(list) == {list[j] : j \in 1..Len(list)}

Summarized == Returned("summarize_all_changes") /\ ~Falsy(amendment_data)

\* C9: affected_articles is in ascending lexicographic order without
\* duplicates and holds exactly the article numbers of the targets.
C9_AffectedSorted ==
    Summarized
    => /\ StrictlyAscending(result.summary.affected_articles)
       /\ Elements(result.summary.affected_articles)
             = {TargetOf(i)["article_number"] :
                   i \in {k \in 1..Len(Amendments) :
                             "article_number" \in DOMAIN TargetOf(k)}}

\* Amendments that name "7" before "12a": the summary lists "12a" first.
C9_Witness ==
    /\ Summarized
    /\ Len(Amendments) = 2
    /\ Targets(1, "7")
    /\ Targets(2, "12a")
    /\ result.summary.affected_articles = <<"12a", "7">>

\* C10: new_articles is sorted, duplicate-free, within affected_articles,
\* holds exactly the article numbers of the targets that carry
\* insert_after_article, and new_articles_added is its length.
C10_NewArticles ==
    Summarized
    => /\ StrictlyAscending(result.summary.new_articles)
       /\ Elements(result.summary.new_articles)
             \subseteq Elements(result.summary.affected_articles)
       /\ Elements(result.summary.new_articles)
             = {TargetOf(i)["article_number"] :
                   i \in {k \in 1..Len(Amendments) :
                             /\ "article_number" \in DOMAIN TargetOf(k)
                             /\ "insert_after_article" \in DOMAIN TargetOf(k)}}
       /\ result.summary.new_articles_added = Len(result.summary.new_articles)

\* Two new articles, given out of order, beside nothing else.
C10_Witness ==
    /\ Summarized
    /\ result.summary.new_articles = <<"12a", "2">>
    /\ Targets(1, "2")

-----------------------------------------------------------------------------
(* Positional access and search by type *)

PositionalOps == {"get_amendment_details", "get_detailed_amendment_analysis"}

\* C11: on a loaded amendment document, get_amendment_details(i) and
\* get_detailed_amendment_analysis(i) answer i < 0 or i >= count with the
\* error that names i and the count (also i = 0 on an empty sequence), and
\* answer 0 <= i < count with the record of the amendment at position i.
C11_BoundsChecked ==
    (call.op \in PositionalOps /\ amendment_data # NoneData)
    => LET i == call.amendment_index
           count == Len(Amendments)
       IN  IF i < 0 \/ i >= count
           THEN result = [error |-> <<"Amendment index ", i,
                                      " out of range. Total amendments: ",
                                      count>>]
           ELSE /\ "error" \notin DOMAIN result
                /\ result.amendment_type = TypeOf(i + 1)
                /\ Returned("get_amendment_details")
                   => /\ result.index = i
                      /\ result.target = TargetOf(i + 1)
                      /\ result.text = Get(Amendments[i + 1], "text", "")
                /\ Returned("get_detailed_amendment_analysis")
                   => /\ result.amendment_index = i
                      /\ result.target_article
                            = Get(TargetOf(i + 1), "article_number", None)

\* Two code-point sequences that differ only in letter case
DifferOnlyInCase(a, b) ==
    /\ Len(a) = Len(b)
    /\ \A k \in 1..Len(a) :
          \/ a[k] = b[k]
          \/ a[k] \in 65..90 /\ b[k] = a[k] + 32
          \/ b[k] \in 65..90 /\ a[k] = b[k] + 32

Searched == Returned("search_amendments_by_type") /\ ~Falsy(amendment_data)

\* C12: type strings that differ only in letter case get the same matches
\* list and the same total_matches.
C12_SearchIgnoresCase ==
    Searched
    => \A t2 \in SearchTypes :
          DifferOnlyInCase(TypeChars(call.amendment_type), TypeChars(t2))
          => LET other == search_amendments_by_type(amendment_data, t2)
             IN  /\ other.matches = result.matches
                 /\ other.total_matches = result.total_matches

\* "ADDITION" finds both the amendment stored as Addition and the one stored
\* as addition.
C12_Witness ==
    /\ Searched
    /\ call.amendment_type = "ADDITION"
    /\ result.total_matches = 2
    /\ result.matches[1].amendment_type # result.matches[2].amendment_type

\* C13: every match carries the 0-based position of its amendment: the
\* indices increase strictly along the list, and get_amendment_details of a
\* match's index succeeds with an amendment of the searched type, ignoring
\* case.
C13_MatchIndexResolves ==
    Searched
    => \A j \in 1..Len(result.matches) :
          LET m == result.matches[j]
              details == get_amendment_details(amendment_data, m.index)
          IN  /\ "error" \notin DOMAIN details
              /\ details.index = m.index
              /\ details.amendment_type = m.amendment_type
              /\ details.amendment_type \in SearchTypes
              /\ DifferOnlyInCase(TypeChars(details.amendment_type),
                                  TypeChars(call.amendment_type))
              /\ j < Len(result.matches)
                 => m.index < result.matches[j + 1].index

\* The only match is the second amendment: its index is 1.
C13_Witness ==
    /\ Searched
    /\ call.amendment_type = "addition"
    /\ Len(Amendments) = 2
    /\ result.total_matches = 1
    /\ result.matches[1].index = 1

-----------------------------------------------------------------------------
(* Article lookup and comparison *)

ArticlesOf(c) == Get(Chapters(decree_data)[c], "articles", EmptyList)

\* The article at position a of chapter c carries exactly the number A.
ArticleAt(c, a, A) ==
    /\ "article_number" \in DOMAIN ArticlesOf(c)[a]
    /\ ArticlesOf(c)[a]["article_number"] = A

\* <<c2, a2>> comes before <<c, a>> in document order.
Earlier(c2, a2, c, a) == c2 < c \/ (c2 = c /\ a2 < a)

LookedUp == Returned("get_article_content") /\ ~Falsy(decree_data)

\* C14: get_article_content(A) returns the first article, in document order,
\* whose article_number is exactly A, with the number and title of the
\* chapter that holds it; without such an article, the not-found error
\* naming A.
C14_FirstExactMatch ==
    LookedUp
    => LET A == call.article_number
           chapters == Chapters(decree_data)
       IN  IF ArticleInDecree(A)
           THEN \E c \in 1..Len(chapters) : \E a \in 1..Len(ArticlesOf(c)) :
                   /\ ArticleAt(c, a, A)
                   /\ \A c2 \in 1..c : \A a2 \in 1..Len(ArticlesOf(c2)) :
                         Earlier(c2, a2, c, a) => ~ArticleAt(c2, a2, A)
                   /\ result.article_number = A
                   /\ result.clauses = Get(ArticlesOf(c)[a], "clauses", EmptyList)
                   /\ result.title = Get(ArticlesOf(c)[a], "article_title", None)
                   /\ result.chapter_number
                         = Get(chapters[c], "chapter_number", None)
                   /\ result.chapter_title
                         = Get(chapters[c], "chapter_title", None)
           ELSE result = [error |-> <<"Article ", A, " not found">>]

\* Article "7" stands in chapters I and II: the one of chapter I is returned.
C14_Witness ==
    /\ LookedUp
    /\ decree_data = DecreeRepeatedArticle
    /\ call.article_number = "7"
    /\ result.chapter_number = "I"
    /\ result.clauses = Article7.clauses

\* C15: a get_article_content(A) made after an earlier one, with any analysis
\* operations in between and no load, returns a result equal to the earlier
\* one.
C15_RepeatedLookupEqual ==
    (/\ Returned("get_article_content")
     /\ remembered # NoneData
     /\ remembered.article_number = call.article_number)
    => result = remembered.result

\* A second lookup of an article the decree holds, after the first was kept.
C15_Witness ==
    /\ Returned("get_article_content")
    /\ remembered # NoneData
    /\ remembered.article_number = call.article_number
    /\ "error" \notin DOMAIN result
    /\ result.clauses # EmptyList

\* C16: analysis.change_types of compare_article_before_after(A) holds each
\* amendment type at most once.
C16_ChangeTypesDistinct ==
    Returned("compare_article_before_after")
    => \A j, k \in 1..Len(result.analysis.change_types) :
          j # k => result.analysis.change_types[j]
                      # result.analysis.change_types[k]

-----------------------------------------------------------------------------
(* Detailed analysis of one amendment *)

\* get_detailed_amendment_analysis has just answered for a valid index.
Analysed ==
    /\ Returned("get_detailed_amendment_analysis")
    /\ ~Falsy(amendment_data)
    /\ call.amendment_index \in 0..Len(Amendments) - 1

\* 1-based position of the analysed amendment
Analysee == call.amendment_index + 1

\* C17: the analysis of a valid index holds original_content, the result of
\* looking the target article up in the decree, if and only if the type is
\* Modification or Deletion and the target names an article.
C17_OriginalContentIff ==
    Analysed
    => /\ "original_content" \in DOMAIN result
          <=> /\ TypeOf(Analysee) \in {"Modification", "Deletion"}
              /\ "article_number" \in DOMAIN TargetOf(Analysee)
       /\ "original_content" \in DOMAIN result
          => result.original_content
                = get_article_content(decree_data,
                                      TargetOf(Analysee)["article_number"])

\* A Modification of article "7" of a decree that holds it.
C17_Witness ==
    /\ Analysed
    /\ TypeOf(Analysee) = "Modification"
    /\ "original_content" \in DOMAIN result
    /\ "error" \notin DOMAIN result.original_content
    /\ result.original_content.article_number = "7"

BaseFields ==
    {"amendment_index", "amendment_type", "target_article", "target_clause",
     "is_new_article", "insert_after"}

PayloadKeys == {"added_content", "modified_content", "deleted_content"}

PayloadKey(amendment_type) ==
    CASE amendment_type = "Addition" -> "added_content"
      [] amendment_type = "Modification" -> "modified_content"
      [] amendment_type = "Deletion" -> "deleted_content"

\* C18: the analysis of a valid index holds exactly one payload, the one of
\* the amendment's type, and a summary; for any other type, also another
\* spelling of the three, it holds the base fields and nothing else.
C18_OnePayloadByType ==
    Analysed
    => IF TypeOf(Analysee) \in {"Addition", "Modification", "Deletion"}
       THEN /\ DOMAIN result \cap PayloadKeys = {PayloadKey(TypeOf(Analysee))}
            /\ result[PayloadKey(TypeOf(Analysee))]
                  = [text |-> Get(Amendments[Analysee], "text", ""),
                     clauses |-> Get(Amendments[Analysee], "clauses", EmptyList)]
            /\ "summary" \in DOMAIN result
            /\ "error" \notin DOMAIN result
            /\ BaseFields \subseteq DOMAIN result
       ELSE DOMAIN result = BaseFields

\* The amendment spelt "addition" gets the base fields only.
C18_Witness ==
    /\ Analysed
    /\ TypeOf(Analysee) = "addition"
    /\ DOMAIN result = BaseFields
    /\ result.target_article = "12a"

-----------------------------------------------------------------------------
(* Error results *)

NeedsDecree ==
    {"get_article_content", "compare_article_before_after",
     "get_combined_article_view"}

NeedsAmendments ==
    {"get_changes_in_article", "summarize_all_changes",
     "get_amendment_details", "search_amendments_by_type",
     "get_detailed_amendment_analysis", "compare_article_before_after",
     "get_combined_article_view"}

\* C19: an analysis operation that requires a tree which has not been
\* loaded returns a result with the key error, whichever of the two trees
\* is missing.
C19_NotLoadedIsError ==
    (\/ call.op \in NeedsDecree /\ decree_data = NoneData
     \/ call.op \in NeedsAmendments /\ amendment_data = NoneData)
    => "error" \in DOMAIN result

\* The amendments whose stored type is amendment_type, ignoring case
TypedLike(amendment_type) ==
    {i \in 1..Len(Amendments) :
        /\ "amendment_type" \in DOMAIN Amendments[i]
        /\ DifferOnlyInCase(TypeChars(TypeOf(i)), TypeChars(amendment_type))}

\* C20: once both trees are loaded, get_changes_in_article,
\* search_amendments_by_type and summarize_all_changes return no error, and
\* a zero count when nothing matches or the document has no amendments.
C20_LoadedNeverFails ==
    (decree_data # NoneData /\ amendment_data # NoneData)
    => /\ Returned("get_changes_in_article")
          => /\ "error" \notin DOMAIN result
             /\ (\A i \in 1..Len(Amendments) : ~Targets(i, call.article_number))
                => result.total_changes = 0
       /\ Returned("search_amendments_by_type")
          => /\ "error" \notin DOMAIN result
             /\ TypedLike(call.amendment_type) = {}
                => result.total_matches = 0
       /\ Returned("summarize_all_changes")
          => /\ "error" \notin DOMAIN result
             /\ Len(Amendments) = 0 => result.summary.total_amendments = 0

-----------------------------------------------------------------------------
(* The trees between loads *)

AnalysisOps ==
    {"get_changes_in_article", "summarize_all_changes", "get_article_content",
     "compare_article_before_after", "get_amendment_details",
     "search_amendments_by_type", "get_detailed_amendment_analysis",
     "get_combined_article_view"}

\* C21: no analysis operation changes decree_data or amendment_data.
C21_AnalysisLeavesTrees ==
    [][call'.op \in AnalysisOps
          => decree_data' = decree_data /\ amendment_data' = amendment_data]_vars

\* A combined view that records a Deletion of a clause, while the decree
\* still holds that clause.
C21_Witness ==
    /\ Returned("get_combined_article_view")
    /\ "error" \notin DOMAIN result
    /\ ArticleInDecree(call.article_number)
    /\ Len(result.deletions) > 0
    /\ get_article_content(decree_data, call.article_number).clauses
          = Article7.clauses

\* The number of detailed_changes entries whose target_article is A
DetailedFor(A) ==
    Cardinality({j \in 1..Len(result.detailed_changes) :
                    result.detailed_changes[j].target_article = A})

\* C26: an article number is in affected_articles exactly when
\* get_changes_in_article counts a change for it, that count is the number
\* of detailed_changes entries for the article, and articles_affected is the
\* length of affected_articles.
C26_SummaryAgreesWithMatcher ==
    Summarized
    => /\ \A A \in ArticleNumbers \cup Elements(result.summary.affected_articles) :
             LET changes == get_changes_in_article(amendment_data, A)
             IN  /\ A \in Elements(result.summary.affected_articles)
                    <=> changes.total_changes > 0
                 /\ changes.total_changes = DetailedFor(A)
       /\ result.summary.articles_affected
             = Len(result.summary.affected_articles)

\* Two amendments on "7" and one new article "12a".
C26_Witness ==
    /\ Summarized
    /\ result.summary.affected_articles = <<"12a", "7">>
    /\ get_changes_in_article(amendment_data, "12a").total_changes = 1
    /\ result.summary.new_articles = <<"12a">>
    /\ DetailedFor("7") = 1

-----------------------------------------------------------------------------
(* Loads, status and reports *)

\* What the last analysis operation returns for the trees as they are now
Recomputed ==
    CASE call.op = "get_changes_in_article" ->
            get_changes_in_article(amendment_data, call.article_number)
      [] call.op = "summarize_all_changes" ->
            summarize_all_changes(amendment_data)
      [] call.op = "get_article_content" ->
            get_article_content(decree_data, call.article_number)
      [] call.op = "compare_article_before_after" ->
            compare_article_before_after(decree_data, amendment_data,
                                         call.article_number)
      [] call.op = "get_amendment_details" ->
            get_amendment_details(amendment_data, call.amendment_index)
      [] call.op = "search_amendments_by_type" ->
            search_amendments_by_type(amendment_data, call.amendment_type)
      [] call.op = "get_detailed_amendment_analysis" ->
            get_detailed_amendment_analysis(decree_data, amendment_data,
                                            call.amendment_index)
      [] call.op = "get_combined_article_view" ->
            get_combined_article_view(decree_data, amendment_data,
                                      call.article_number)

ReadsBothTrees ==
    {"compare_article_before_after", "get_combined_article_view",
     "get_detailed_amendment_analysis"}

\* A step of an analysis request that reads both trees
AnalysisStep ==
    /\ call'.op \in ReadsBothTrees
    /\ result' = Recomputed'
    /\ UNCHANGED <<decree_data, amendment_data, loading>>

\* C23: an analysis request that runs while load_legal_documents is in
\* progress computes from the pair of trees the load found or from the pair
\* the load stores, never from the decree of one and the amendments of the
\* other.
C23_LoadExcludesReads ==
    [][(AnalysisStep /\ loading # NoneData)
          => \/ <<decree_data, amendment_data>> = loading.stored
             \/ /\ loading.decree_file.readable
                /\ loading.amendment_file.readable
                /\ decree_data = loading.decree_file.data
                /\ amendment_data = loading.amendment_file.data]_vars

\* C24: the link of a generated report is made for the key under which the
\* report was stored.
C24_LinkKeyIsStoredKey ==
    (Returned("generate_analysis_report") /\ "report_details" \in DOMAIN result)
    => /\ result.report_details.pdf_url.Key = s3_key(call.filename)
       /\ result.report_details.pdf_url.Key \in bucket

\* C25: a load_legal_documents that fails leaves both trees as they were.
C25_LoadAllOrNothing ==
    [][(call'.op = "load_legal_documents"
        /\ result'.returned = "Error loading documents")
          => decree_data' = decree_data /\ amendment_data' = amendment_data]_vars

\* C27: check_document_status reports a tree loaded exactly when the
\* analysis operations do not answer it with the not-loaded error.
C27_StatusAgreesWithOperations ==
    Returned("check_document_status")
    => /\ result.documents_loaded.decree_loaded
          <=> \A A \in ArticleNumbers :
                 get_article_content(decree_data, A)
                    # [error |-> <<"Decree data not loaded">>]
       /\ result.documents_loaded.amendment_loaded
          <=> \A A \in ArticleNumbers :
                 get_changes_in_article(amendment_data, A)
                    # [error |-> <<"Amendment data not loaded">>]

====
